---- MODULE Spec2Model ----
(***************************************************************************)
(* The RFM pipeline of rfm_package/rfm/main.py as a state machine.         *)
(*                                                                         *)
(*   create_rfm_columns -> scale_rfm_columns -> rfm_scores                 *)
(*     -> give_names_to_segments -> segments_distribution                  *)
(*     -> visualize_segments                                               *)
(*                                                                         *)
(* A DataFrame is a sequence of rows; a row is a function from column      *)
(* names to values, so a column the code adds widens the row's DOMAIN.     *)
(* Dates are counted in ticks of 1/TicksPerDay day, so Timedelta.days is   *)
(* a real floor.  Quartile edges are kept as exact numerators over 4.      *)
(***************************************************************************)
EXTENDS Integers, Sequences, FiniteSets, TLC

(* ------------------------------ bounds --------------------------------- *)

\* longest transaction table with rows in any order (Spec)
MaxRows == 3
\* longest transaction table kept in customer order (Spec)
MaxLedgerRows == 6
\* most customers of a free metric table (SpecEnc)
MaxCustomers == 4
\* most customers, and number of metric values, of a rank-aligned metric table
MaxWide == 7
\* resolution of a date: ticks per day
TicksPerDay == 2

Ids == {1, 2, 3}
Dates == 0 .. 3
Revenues == {1, 2}
\* the days of a table whose dates carry no time of day
LedgerDays == 0 .. 2

Recencies == 0 .. 3
Frequencies == 1 .. 3
Monetaries == {10 * j : j \in 1 .. 3}

VARIABLES
    transactions,   \* the caller's raw table: rows [id, date, revenue]
    data,           \* the per-customer table handed from stage to stage
    summary,        \* the table segments_distribution returns
    plot,           \* what squarify.plot drew: one [label, size] per rectangle
    pc              \* the stage the caller has reached

vars == <<transactions, data, summary, plot, pc>>

(* ------------------------------ helpers -------------------------------- *)

RECURSIVE SumSeq(_)
SumSeq(s) == IF s = <<>> THEN 0 ELSE Head(s) + SumSeq(Tail(s))

MaxOf(S) == CHOOSE m \in S : \A v \in S : v <= m

MinOf(S) == CHOOSE m \in S : \A v \in S : m <= v

\* the keys of a group-by, ascending (groupby sorts its keys)
RECURSIVE SortedKeys(_)
SortedKeys(S) ==
    IF S = {} THEN <<>> ELSE <<MinOf(S)>> \o SortedKeys(S \ {MinOf(S)})

Column(t, name) == [i \in DOMAIN t |-> t[i][name]]

\* data[name] = vals : the column is added, or overwritten when present
WithColumn(t, name, vals) == [i \in DOMAIN t |-> (name :> vals[i]) @@ t[i]]

HasColumn(t, name) == \A i \in DOMAIN t : name \in DOMAIN t[i]

(* ------------------------- create_rfm_columns -------------------------- *)

\* Timedelta.days: whole days, rounded down
Days(td) == td \div TicksPerDay

GroupRows(t, c) == SelectSeq(t, LAMBDA r : r.id = c)

\* mutant: the customer's first purchase instead of the last
RecencyOf_FirstPurchase(max_date, g) ==
    Days(max_date - MinOf({g[i].date : i \in DOMAIN g}))

RecencyOf(max_date, g) ==
    Days(max_date - MaxOf({g[i].date : i \in DOMAIN g}))

FrequencyOf(g) == Len(g)

MonetaryOf(g) == SumSeq([i \in DOMAIN g |-> g[i].revenue])

create_rfm_columns(t) ==
    LET max_date == MaxOf({t[i].date : i \in DOMAIN t})
        keys     == SortedKeys({t[i].id : i \in DOMAIN t})
    IN  [k \in 1 .. Len(keys) |->
            LET g == GroupRows(t, keys[k])
            IN  [id        |-> keys[k],
                 Recency   |-> RecencyOf(max_date, g),
                 Frequency |-> FrequencyOf(g),
                 Monetary  |-> MonetaryOf(g)]]

CreateRfmColumns ==
    /\ pc = "start"
    /\ data' = create_rfm_columns(transactions)
    /\ pc' = "metrics"
    /\ UNCHANGED <<transactions, summary, plot>>

(* -------------------------- scale_rfm_columns -------------------------- *)

\* pd.qcut(x, 4, labels): the number of quantile bins
Q == 4

RLabels == <<"1", "2", "3", "4">>
FLabels == <<"4", "3", "2", "1">>
MLabels == <<"4", "3", "2", "1">>

\* ascending insertion of v into an ascending sequence
RECURSIVE InsertAsc(_, _)
InsertAsc(v, s) ==
    IF s = <<>> THEN <<v>>
    ELSE IF v <= Head(s) THEN <<v>> \o s
    ELSE <<Head(s)>> \o InsertAsc(v, Tail(s))

RECURSIVE SortAsc(_)
SortAsc(s) == IF s = <<>> THEN <<>> ELSE InsertAsc(Head(s), SortAsc(Tail(s)))

\* Series.quantile(k/Q), linear interpolation, times Q: with v the values in
\* ascending order the quantile sits at position (n-1)*k/Q (from 0), between
\* v[lo] and v[lo+1], fr/Q of the way.
QuantileTimesQ(x, k) ==
    LET v   == SortAsc(x)
        pos == (Len(v) - 1) * k
        lo  == pos \div Q
        fr  == pos % Q
    IN  IF fr = 0 THEN Q * v[lo + 1]
        ELSE Q * v[lo + 1] + fr * (v[lo + 2] - v[lo + 1])

\* mutant: pd.cut's equal-width edges, from the minimum to the maximum
BinEdges_EqualWidth(x) ==
    LET lo == MinOf({x[i] : i \in DOMAIN x})
        hi == MaxOf({x[i] : i \in DOMAIN x})
    IN  [k \in 1 .. Q + 1 |-> Q * lo + (k - 1) * (hi - lo)]

\* the Q+1 bin edges of qcut, each times Q
BinEdges(x) == [k \in 1 .. Q + 1 |-> QuantileTimesQ(x, k - 1)]

\* mutant: duplicates='drop', equal edges are not an error
EdgesUnique_Dropped(e) == Len(e) = Q + 1

\* duplicates='raise': "Bin edges must be unique"
EdgesUnique(e) == \A i, j \in DOMAIN e : i # j => e[i] # e[j]

\* bins.searchsorted(v, side='left'), then include_lowest: the bins are
\* [e1, e2], (e2, e3], (e3, e4], (e4, e5]
BinIndex(e, v) ==
    IF Q * v = e[1] THEN 1
    ELSE Cardinality({j \in DOMAIN e : e[j] < Q * v})

\* pd.qcut(x, Q, labels): the label of each value's bin, or the ValueError
qcut(x, labels) ==
    LET e == BinEdges(x)
    IN  IF EdgesUnique(e)
        THEN [ok |-> TRUE, codes |-> [i \in DOMAIN x |-> labels[BinIndex(e, x[i])]]]
        ELSE [ok |-> FALSE, codes |-> <<>>]

\* mutant: the three columns are computed first and assigned together
scale_rfm_columns_Atomic(t) ==
    LET r  == qcut(Column(t, "Recency"), RLabels)
        f  == qcut(Column(t, "Frequency"), FLabels)
        m  == qcut(Column(t, "Monetary"), MLabels)
    IN  IF r.ok /\ f.ok /\ m.ok
        THEN [ok |-> TRUE,
              data |-> WithColumn(WithColumn(WithColumn(t, "R", r.codes),
                                             "F", f.codes), "M", m.codes)]
        ELSE [ok |-> FALSE, data |-> t]

\* The three assignments run in order on the caller's table; an exception
\* leaves the table as the assignments before it made it.
scale_rfm_columns(t) ==
    LET r  == qcut(Column(t, "Recency"), RLabels)
        t1 == WithColumn(t, "R", r.codes)
        f  == qcut(Column(t, "Frequency"), FLabels)
        t2 == WithColumn(t1, "F", f.codes)
        m  == qcut(Column(t, "Monetary"), MLabels)
        t3 == WithColumn(t2, "M", m.codes)
    IN  IF ~r.ok THEN [ok |-> FALSE, data |-> t]
        ELSE IF ~f.ok THEN [ok |-> FALSE, data |-> t1]
        ELSE IF ~m.ok THEN [ok |-> FALSE, data |-> t2]
        ELSE [ok |-> TRUE, data |-> t3]

ScaleRfmColumns ==
    /\ pc = "metrics"
    /\ LET res == scale_rfm_columns(data)
       IN  /\ data' = res.data
           /\ pc' = IF res.ok THEN "encoded" ELSE "failed"
    /\ UNCHANGED <<transactions, summary, plot>>

(* ------------------------------ rfm_scores ----------------------------- *)

\* astype(int) of a label
IntOf(label) ==
    CASE label = "1" -> 1
      [] label = "2" -> 2
      [] label = "3" -> 3
      [] label = "4" -> 4

\* a string is the sequence of its characters; + on strings concatenates
StrOf(label) == <<label>>

\* mutant: the labels are added as strings, then read as a number
RFM_ScoreOf_Concat(row) == 100 * IntOf(row.R) + 10 * IntOf(row.F) + IntOf(row.M)

RFM_ScoreOf(row) == IntOf(row.R) + IntOf(row.F) + IntOf(row.M)

RFM_SegmentOf(row) == StrOf(row.R) \o StrOf(row.F) \o StrOf(row.M)

\* string order of two RFM_Segment values (digit characters compare as digits)
RECURSIVE StrLess(_, _)
StrLess(a, b) ==
    IF b = <<>> THEN FALSE
    ELSE IF a = <<>> THEN TRUE
    ELSE IF Head(a) # Head(b) THEN IntOf(Head(a)) < IntOf(Head(b))
    ELSE StrLess(Tail(a), Tail(b))

\* sort_values('RFM_Segment', ascending=False): descending; rows with equal
\* keys keep their order (the argsort of a table this small is an insertion
\* sort, taken on the reversed table and reversed back)
RECURSIVE InsertDesc(_, _)
InsertDesc(row, t) ==
    IF t = <<>> THEN <<row>>
    ELSE IF StrLess(row.RFM_Segment, Head(t).RFM_Segment)
         THEN <<Head(t)>> \o InsertDesc(row, Tail(t))
         ELSE <<row>> \o t

RECURSIVE SortDesc(_)
SortDesc(t) == IF t = <<>> THEN <<>> ELSE InsertDesc(Head(t), SortDesc(Tail(t)))

rfm_scores(t) ==
    LET t1 == WithColumn(t, "RFM_Score", [i \in DOMAIN t |-> RFM_ScoreOf(t[i])])
        t2 == WithColumn(t1, "RFM_Segment", [i \in DOMAIN t |-> RFM_SegmentOf(t[i])])
    IN  SortDesc(t2)

RfmScores ==
    /\ pc = "encoded"
    /\ data' = rfm_scores(data)
    /\ pc' = "scored"
    /\ UNCHANGED <<transactions, summary, plot>>

(* ------------------- naming, give_names_to_segments -------------------- *)

\* mutant: the first test is strict
naming_Strict(df) ==
    IF df.RFM_Score > 9 THEN "Can't Loose Them"
    ELSE IF df.RFM_Score >= 8 /\ df.RFM_Score < 9 THEN "Champions"
    ELSE IF df.RFM_Score >= 7 /\ df.RFM_Score < 8 THEN "Loyal/Commited"
    ELSE IF df.RFM_Score >= 6 /\ df.RFM_Score < 7 THEN "Potential"
    ELSE IF df.RFM_Score >= 5 /\ df.RFM_Score < 6 THEN "Promising"
    ELSE IF df.RFM_Score >= 4 /\ df.RFM_Score < 5 THEN "Requires Attention"
    ELSE "Demands Activation"

naming(df) ==
    IF df.RFM_Score >= 9 THEN "Can't Loose Them"
    ELSE IF df.RFM_Score >= 8 /\ df.RFM_Score < 9 THEN "Champions"
    ELSE IF df.RFM_Score >= 7 /\ df.RFM_Score < 8 THEN "Loyal/Commited"
    ELSE IF df.RFM_Score >= 6 /\ df.RFM_Score < 7 THEN "Potential"
    ELSE IF df.RFM_Score >= 5 /\ df.RFM_Score < 6 THEN "Promising"
    ELSE IF df.RFM_Score >= 4 /\ df.RFM_Score < 5 THEN "Requires Attention"
    ELSE "Demands Activation"

give_names_to_segments(t) ==
    WithColumn(t, "Segment_Name", [i \in DOMAIN t |-> naming(t[i])])

GiveNamesToSegments ==
    /\ pc = "scored"
    /\ data' = give_names_to_segments(data)
    /\ pc' = "named"
    /\ UNCHANGED <<transactions, summary, plot>>

(* ------------------------ segments_distribution ------------------------ *)

\* the seven names in string order, the order in which groupby lists them
NameOrder ==
    <<"Can't Loose Them", "Champions", "Demands Activation", "Loyal/Commited",
      "Potential", "Promising", "Requires Attention">>

\* mean(...).round(1), in tenths: sum/n to one decimal, halves to the even tenth
MeanRound1(col) ==
    LET num  == 10 * SumSeq(col)
        n    == Len(col)
        fl   == num \div n
        rem2 == 2 * (num % n)
    IN  IF rem2 < n THEN fl
        ELSE IF rem2 > n THEN fl + 1
        ELSE IF fl % 2 = 0 THEN fl ELSE fl + 1

\* mutant: one row for each of the seven names, absent ones with count 0
segments_distribution_AllNames(t) ==
    [k \in 1 .. Len(NameOrder) |->
        LET g == SelectSeq(t, LAMBDA r : r.Segment_Name = NameOrder[k])
        IN  [Segment_Name   |-> NameOrder[k],
             Recency_mean   |-> IF g = <<>> THEN 0 ELSE MeanRound1(Column(g, "Recency")),
             Frequency_mean |-> IF g = <<>> THEN 0 ELSE MeanRound1(Column(g, "Frequency")),
             Monetary_mean  |-> IF g = <<>> THEN 0 ELSE MeanRound1(Column(g, "Monetary")),
             Monetary_count |-> Len(g)]]

segments_distribution(t) ==
    LET present == SelectSeq(NameOrder,
                       LAMBDA s : \E i \in DOMAIN t : t[i].Segment_Name = s)
    IN  [k \in 1 .. Len(present) |->
            LET g == SelectSeq(t, LAMBDA r : r.Segment_Name = present[k])
            IN  [Segment_Name   |-> present[k],
                 Recency_mean   |-> MeanRound1(Column(g, "Recency")),
                 Frequency_mean |-> MeanRound1(Column(g, "Frequency")),
                 Monetary_mean  |-> MeanRound1(Column(g, "Monetary")),
                 Monetary_count |-> Len(g)]]

SegmentsDistribution ==
    /\ pc = "named"
    /\ summary' = segments_distribution(data)
    /\ pc' = "summarised"
    /\ UNCHANGED <<transactions, data, plot>>

(* -------------------------- visualize_segments ------------------------- *)

\* the label list handed to squarify.plot
SegmentLabels ==
    <<"Can't Loose Them", "Champions", "Loyal/Commited", "Requires Attention",
      "Potential", "Promising", "Demands Activation">>

\* data.columns = [...]: the four value columns renamed in place
RenameColumns(t) ==
    [i \in DOMAIN t |->
        [Segment_Name  |-> t[i].Segment_Name,
         RecencyMean   |-> t[i].Recency_mean,
         FrequencyMean |-> t[i].Frequency_mean,
         MonetaryMean  |-> t[i].Monetary_mean,
         Count         |-> t[i].Monetary_count]]

\* squarify.plot(sizes, label): one rectangle per size, the i-th sized by the
\* i-th size; the labels are zipped with the rectangles, the i-th label on the
\* i-th rectangle, and labels beyond the rectangles are dropped
SquarifyPlot(sizes, label) ==
    [i \in 1 .. Len(sizes) |->
        [size  |-> sizes[i],
         label |-> IF i <= Len(label) THEN label[i] ELSE ""]]

VisualizeSegments ==
    /\ pc = "summarised"
    /\ summary' = RenameColumns(summary)
    /\ plot' = SquarifyPlot(Column(summary', "Count"), SegmentLabels)
    /\ pc' = "plotted"
    /\ UNCHANGED <<transactions, data>>

(* --------------------------- specification ----------------------------- *)

(* Transaction tables: every table of up to MaxRows rows, rows in any     *)
(* order and dates with a time of day; and longer tables kept in customer    *)
(* order (by id, then date, then revenue) whose dates are whole days.        *)

TransactionRows == [id : Ids, date : Dates, revenue : Revenues]

\* the k-th ledger row (from 0), id first, then day, then revenue
LedgerRow(k) ==
    LET nd == Cardinality(LedgerDays)
        nr == Cardinality(Revenues)
    IN  [id      |-> MinOf(Ids) + (k \div (nd * nr)),
         date    |-> TicksPerDay * (MinOf(LedgerDays) + ((k \div nr) % nd)),
         revenue |-> MinOf(Revenues) + (k % nr)]

NumLedgerRows == Cardinality(Ids) * Cardinality(LedgerDays) * Cardinality(Revenues)

RECURSIVE AscendingRows(_)
AscendingRows(n) ==
    IF n = 1 THEN {<<k>> : k \in 0 .. NumLedgerRows - 1}
    ELSE {Append(x[1], x[2]) :
            x \in {y \in AscendingRows(n - 1) \X (0 .. NumLedgerRows - 1) :
                      y[1][Len(y[1])] <= y[2]}}

LedgerTable(s) == [i \in DOMAIN s |-> LedgerRow(s[i])]

Init ==
    /\ \/ \E n \in 1 .. MaxRows : transactions \in [1 .. n -> TransactionRows]
       \/ \E n \in 1 .. MaxLedgerRows : \E s \in AscendingRows(n) :
              transactions = LedgerTable(s)
    /\ data = <<>>
    /\ summary = <<>>
    /\ plot = <<>>
    /\ pc = "start"

Next ==
    \/ CreateRfmColumns
    \/ ScaleRfmColumns
    \/ RfmScores
    \/ GiveNamesToSegments
    \/ SegmentsDistribution
    \/ VisualizeSegments

Spec == Init /\ [][Next]_vars

(* Metric tables handed straight to scale_rfm_columns.  A table of          *)
(* create_rfm_columns has one row per customer, ids ascending, a customer   *)
(* of Recency 0 (the one who bought last) and Frequency >= 1.  No stage     *)
(* reads the id, so the customers are numbered in the order of their        *)
(* (Recency, Frequency, Monetary): every metric table is one of these once  *)
(* its customers are renumbered.                                            *)

\* the k-th profile (from 0), Recency first, then Frequency, then Monetary
Profile(k) ==
    LET nf == Cardinality(Frequencies)
        nm == Cardinality(Monetaries)
    IN  [Recency   |-> MinOf(Recencies) + (k \div (nf * nm)),
         Frequency |-> MinOf(Frequencies) + ((k \div nm) % nf),
         Monetary  |-> MinOf(Monetaries) * (1 + (k % nm))]

NumProfiles == Cardinality(Recencies) * Cardinality(Frequencies) * Cardinality(Monetaries)

\* ascending sequences of n profile numbers, the first of Recency 0
RECURSIVE AscendingProfiles(_)
AscendingProfiles(n) ==
    IF n = 1 THEN {<<k>> : k \in {j \in 0 .. NumProfiles - 1 : Profile(j).Recency = 0}}
    ELSE {Append(x[1], x[2]) :
            x \in {y \in AscendingProfiles(n - 1) \X (0 .. NumProfiles - 1) :
                      y[1][Len(y[1])] <= y[2]}}

FreeMetricTable(s) ==
    [i \in DOMAIN s |->
        [id |-> i, Recency |-> Profile(s[i]).Recency,
         Frequency |-> Profile(s[i]).Frequency, Monetary |-> Profile(s[i]).Monetary]]

\* Rank-aligned tables: more customers and more values, Frequency and
\* Monetary rising with Recency, so that one column's ties and quartiles are
\* explored in depth.
RECURSIVE AscendingRecencies(_)
AscendingRecencies(n) ==
    IF n = 1 THEN {<<0>>}
    ELSE {Append(x[1], x[2]) :
            x \in {y \in AscendingRecencies(n - 1) \X (0 .. MaxWide - 1) :
                      y[1][Len(y[1])] <= y[2]}}

AlignedMetricTable(s) ==
    [i \in DOMAIN s |->
        [id |-> i, Recency |-> s[i], Frequency |-> s[i] + 1, Monetary |-> 10 * (s[i] + 1)]]

InitEnc ==
    /\ transactions = <<>>
    /\ \/ \E n \in 1 .. MaxCustomers : \E s \in AscendingProfiles(n) :
              data = FreeMetricTable(s)
       \/ \E n \in 1 .. MaxWide : \E s \in AscendingRecencies(n) :
              data = AlignedMetricTable(s)
    /\ summary = <<>>
    /\ plot = <<>>
    /\ pc = "metrics"

NextEnc ==
    \/ ScaleRfmColumns
    \/ RfmScores
    \/ GiveNamesToSegments
    \/ SegmentsDistribution
    \/ VisualizeSegments

SpecEnc == InitEnc /\ [][NextEnc]_vars

(* ------------------------------- claims -------------------------------- *)

InputIds == {transactions[i].id : i \in DOMAIN transactions}

RowsOfCustomer(c) == {i \in DOMAIN transactions : transactions[i].id = c}

RECURSIVE RevenueOver(_)
RevenueOver(I) ==
    IF I = {} THEN 0
    ELSE LET i == CHOOSE j \in I : TRUE
         IN  transactions[i].revenue + RevenueOver(I \ {i})

LastDate(I) == MaxOf({transactions[i].date : i \in I})

\* d is the whole number of days in a span of td ticks
IsDays(d, td) == d * TicksPerDay <= td /\ td < (d + 1) * TicksPerDay

\* C1: create_rfm_columns returns exactly one row per distinct customer of a
\* non-empty transaction table; the row of customer c has Frequency = the
\* number of rows of c, Monetary = the sum of their revenue, and Recency =
\* the days from c's last date to the last date of the whole table, >= 0.
C1_OneRowPerCustomer ==
    pc = "metrics" =>
        /\ Len(data) = Cardinality(InputIds)
        /\ {data[k].id : k \in DOMAIN data} = InputIds
        /\ \A k \in DOMAIN data :
              LET I == RowsOfCustomer(data[k].id)
              IN  /\ data[k].Frequency = Cardinality(I)
                  /\ data[k].Monetary = RevenueOver(I)
                  /\ IsDays(data[k].Recency,
                            LastDate(DOMAIN transactions) - LastDate(I))
                  /\ data[k].Recency >= 0

\* C1's case: several customers, one with several purchases on different
\* dates, one who bought days before the last purchase of the table
C1_Witness ==
    /\ pc = "metrics"
    /\ Len(data) >= 2
    /\ \E k \in DOMAIN data : data[k].Frequency >= 2 /\ data[k].Recency >= 1
    /\ \E i, j \in DOMAIN transactions :
          /\ transactions[i].id = transactions[j].id
          /\ transactions[i].date # transactions[j].date

Customers == DOMAIN data

\* C2: in an encoded table the R label is higher for more recent customers:
\* Recency(a) < Recency(b) implies R(a) >= R(b), and the customers of the
\* lowest Recency have R = 4.
C2_RecentGetsHighR ==
    pc = "encoded" =>
        /\ \A a, b \in Customers :
              data[a].Recency < data[b].Recency => IntOf(data[a].R) >= IntOf(data[b].R)
        /\ \A a \in Customers :
              data[a].Recency = MinOf({data[b].Recency : b \in Customers})
                  => data[a].R = "4"

\* C3: in an encoded table the F and M labels are higher for higher values:
\* Frequency(a) < Frequency(b) implies F(a) <= F(b), likewise Monetary and M,
\* and the customers of the highest Frequency (Monetary) have F (M) = 4.
C3_HighValueGetsHighFM ==
    pc = "encoded" =>
        /\ \A a, b \in Customers :
              /\ data[a].Frequency < data[b].Frequency
                    => IntOf(data[a].F) <= IntOf(data[b].F)
              /\ data[a].Monetary < data[b].Monetary
                    => IntOf(data[a].M) <= IntOf(data[b].M)
        /\ \A a \in Customers :
              /\ data[a].Frequency = MaxOf({data[b].Frequency : b \in Customers})
                    => data[a].F = "4"
              /\ data[a].Monetary = MaxOf({data[b].Monetary : b \in Customers})
                    => data[a].M = "4"

Labels == {"1", "2", "3", "4"}

MetricOf == [R |-> "Recency", F |-> "Frequency", M |-> "Monetary"]

GroupSize(col, l) == Cardinality({a \in Customers : data[a][col] = l})

\* the column's labels 1..4 all occur, in groups whose sizes differ by at most 1
FourEvenGroups(col) ==
    /\ \A a \in Customers : data[a][col] \in Labels
    /\ \A l \in Labels : GroupSize(col, l) >= 1
    /\ \A l, m \in Labels : GroupSize(col, l) - GroupSize(col, m) <= 1

PairwiseDistinct(col) ==
    \A a, b \in Customers : a # b => data[a][col] # data[b][col]

\* C4 as claimed: each of R, F, M splits the customers of an encoded table
\* into exactly 4 non-empty groups whose sizes differ by at most 1, also when
\* customers share a metric value.
C4_FourEvenGroupsAlways ==
    pc = "encoded" => \A col \in DOMAIN MetricOf : FourEvenGroups(col)

\* C4 as amended: in an encoded table every customer has one label of 1..4 in
\* each of R, F, M, and customers of equal metric value have equal labels; a
\* column splits the customers into 4 non-empty groups whose sizes differ by
\* at most 1 when its metric values are pairwise distinct over at least 4
\* customers.
C4_FourEvenGroupsOfDistinctValues ==
    pc = "encoded" =>
        \A col \in DOMAIN MetricOf :
            /\ \A a \in Customers : data[a][col] \in Labels
            /\ \A a, b \in Customers :
                  data[a][MetricOf[col]] = data[b][MetricOf[col]]
                      => data[a][col] = data[b][col]
            /\ (Len(data) >= Q /\ PairwiseDistinct(MetricOf[col]))
                  => FourEvenGroups(col)

\* C4's case: an encoded table of more customers than a multiple of 4, their
\* Recency pairwise distinct, so that the groups cannot all have one size
C4_Witness ==
    /\ pc = "encoded"
    /\ Len(data) > Q
    /\ Len(data) % Q # 0
    /\ PairwiseDistinct("Recency")
    /\ \E l, m \in Labels : GroupSize("R", l) # GroupSize("R", m)

DistinctValues(col) == Cardinality({data[a][col] : a \in Customers})

\* C5 as claimed: scale_rfm_columns fails, and returns no encoded table, for
\* every metric table in which one of Recency, Frequency, Monetary has fewer
\* than 4 distinct values.
C5_FailsBelowFourDistinct ==
    pc = "encoded" =>
        \A col \in {"Recency", "Frequency", "Monetary"} : DistinctValues(col) >= 4

\* C5 as amended: scale_rfm_columns fails, and returns no encoded table, for
\* every metric table in which one of Recency, Frequency, Monetary has fewer
\* than 2 distinct values (all customers share one value).
C5_FailsBelowTwoDistinct ==
    pc = "encoded" =>
        \A col \in {"Recency", "Frequency", "Monetary"} : DistinctValues(col) >= 2

\* C5's case: the encoder has failed on a table of several customers who
\* share one Monetary value, Recency and Frequency having been encoded
C5_Witness ==
    /\ pc = "failed"
    /\ Len(data) >= 2
    /\ DistinctValues("Monetary") = 1
    /\ HasColumn(data, "R") /\ HasColumn(data, "F")

Scored == {"scored", "named", "summarised", "plotted"}

\* C6: in every row of a table rfm_scores returned, RFM_Score is the integer
\* sum R + F + M and lies in 3..12, and RFM_Segment is the 3-character string
\* of the R, F and M labels in that order.
C6_ScoreIsSumSegmentIsRFM ==
    pc \in Scored =>
        \A a \in Customers :
            /\ data[a].RFM_Score = IntOf(data[a].R) + IntOf(data[a].F) + IntOf(data[a].M)
            /\ data[a].RFM_Score \in 3 .. 12
            /\ Len(data[a].RFM_Segment) = 3
            /\ data[a].RFM_Segment = <<data[a].R, data[a].F, data[a].M>>

\* C6's case: a scored table with a row whose three labels differ and rows
\* of different scores
C6_Witness ==
    /\ pc = "scored"
    /\ \E a \in Customers :
          /\ data[a].R # data[a].F
          /\ data[a].F # data[a].M
          /\ data[a].R # data[a].M
    /\ \E a, b \in Customers : data[a].RFM_Score # data[b].RFM_Score

Named == {"named", "summarised", "plotted"}

\* the name the claim gives a score
SegmentFor(s) ==
    CASE s >= 9 -> "Can't Loose Them"
      [] s = 8  -> "Champions"
      [] s = 7  -> "Loyal/Commited"
      [] s = 6  -> "Potential"
      [] s = 5  -> "Promising"
      [] s = 4  -> "Requires Attention"
      [] s < 4  -> "Demands Activation"

\* C7: naming is a total function of RFM_Score alone: every score of 3..12
\* gets the name of the claim's table, every row of a named table carries the
\* name of its score, and two rows of equal score carry the same name
\* whatever their other columns hold.
C7_NameIsFunctionOfScore ==
    /\ \A s \in 3 .. 12 : naming([RFM_Score |-> s]) = SegmentFor(s)
    /\ pc \in Named =>
          /\ \A a \in Customers : data[a].Segment_Name = SegmentFor(data[a].RFM_Score)
          /\ \A a, b \in Customers :
                data[a].RFM_Score = data[b].RFM_Score
                    => data[a].Segment_Name = data[b].Segment_Name

\* C7's case: a named table with two rows of equal score 9 and different
\* labels, and a row of another name
C7_Witness ==
    /\ pc = "named"
    /\ \E a, b \in Customers :
          /\ data[a].RFM_Score = 9
          /\ data[b].RFM_Score = 9
          /\ data[a].RFM_Segment # data[b].RFM_Segment
    /\ \E a, b \in Customers : data[a].Segment_Name # data[b].Segment_Name

NamesOf(t) == {t[i].Segment_Name : i \in DOMAIN t}

\* C8: when the full pipeline completes, the summary has one row per
\* Segment_Name that has a customer and none for an absent one, and the
\* counts sum to the number of distinct customer ids of the input.
C8_OneRowPerPresentSegment ==
    pc = "summarised" =>
        /\ NamesOf(summary) = NamesOf(data)
        /\ \A i, j \in DOMAIN summary :
              i # j => summary[i].Segment_Name # summary[j].Segment_Name
        /\ \A i \in DOMAIN summary :
              summary[i].Monetary_count =
                  Cardinality({a \in Customers :
                                  data[a].Segment_Name = summary[i].Segment_Name})
        /\ SumSeq(Column(summary, "Monetary_count")) = Cardinality(InputIds)

\* C8's case: the pipeline has summarised an input of three customers in
\* two segments, one of them shared by two customers
C8_Witness ==
    /\ pc = "summarised"
    /\ Len(summary) = 2
    /\ Cardinality(InputIds) = 3
    /\ \E i \in DOMAIN summary : summary[i].Monetary_count = 2

GainedColumns(t) == {col \in DOMAIN MetricOf : HasColumn(t, col)}

Unencodable(t, col) == ~qcut(Column(t, col), RLabels).ok

WithoutLabels(t) ==
    [i \in DOMAIN t |->
        [c \in DOMAIN t[i] \ DOMAIN MetricOf |-> t[i][c]]]

\* C9 as claimed: when scale_rfm_columns fails, the table passed in is
\* unchanged, whichever of the three columns caused the failure.
C9_FailureLeavesTableUnchanged ==
    [][(pc = "metrics" /\ pc' = "failed") => data' = data]_vars

\* C9 as amended: when scale_rfm_columns fails, the table passed in keeps its
\* rows and metric values and has gained the label columns assigned before
\* the failing one: none when Recency fails, R when Frequency fails, R and F
\* when Monetary fails.
C9_FailureKeepsEarlierColumns ==
    [][(pc = "metrics" /\ pc' = "failed") =>
          /\ WithoutLabels(data') = data
          /\ GainedColumns(data') =
                IF Unencodable(data, "Recency") THEN {}
                ELSE IF Unencodable(data, "Frequency") THEN {"R"}
                ELSE {"R", "F"}]_vars

\* C9's case: the encoder has failed on Monetary after assigning R and F
C9_Witness ==
    /\ pc = "failed"
    /\ Len(data) >= 2
    /\ GainedColumns(data) = {"R", "F"}

\* C10: visualize_segments draws, on the i-th rectangle, the Segment_Name of
\* the i-th summary row, whose count sizes it, and the label list has as many
\* labels as the summary has rows.
C10_LabelsMatchSummaryRows ==
    pc = "plotted" =>
        /\ Len(SegmentLabels) = Len(summary)
        /\ Len(plot) = Len(summary)
        /\ \A i \in DOMAIN plot :
              /\ plot[i].label = summary[i].Segment_Name
              /\ plot[i].size = summary[i].Count

====
